---------------------------- MODULE Spec2Model ----------------------------
(***************************************************************************)
(* A model of scripts/init_project.py, the project initializer of the      *)
(* dbt-workflow template: prompt for six values, report a dry run, ask for *)
(* confirmation, rename the ddls/ paths that embed a database or warehouse *)
(* name, re-scan the tree, replace the old tokens in file contents, set up *)
(* the git remote and offer to delete the script.                          *)
(*                                                                         *)
(* Text is modelled as a sequence of one-character strings so that         *)
(* str.count, str.replace, str.strip, str.lower and os.path.splitext are   *)
(* computed on characters.  A file's data is a sequence of bytes: an ASCII *)
(* character stands for its own byte, and BAD stands for a byte that is    *)
(* not valid UTF-8 (0xFF).  A path is a sequence of names relative to the  *)
(* project root; the file tree is a function from paths to nodes.          *)
(***************************************************************************)
EXTENDS Integers, Sequences, FiniteSets

VARIABLES
    fs,                 \* the file tree: path -> node
    fs0,                \* the file tree when the script started (history)
    pc,                 \* the position of main
    values,             \* prompt_values(): key -> value
    replacements,       \* main's list of (old, new) pairs, filtered
    dir_renames,        \* main's list of directory renames, filtered
    file_renames,       \* main's list of file renames, filtered
    text_files,         \* the last result of collect_text_files
    dry,                \* the dry run's (total, files) per replacement pair
    applied,            \* replace_in_files' return value per pair, so far
    total_replacements, \* main's running total
    confirm,            \* the processed answer to "Apply these changes?"
    ret,                \* what each rename_path call returned, in order
    landed,             \* per call that returned True: the item is at new
    opened,             \* inodes of the files whose content was read
    written,            \* inodes of the files whose content was rewritten
    log                 \* the operations main performed, in order

vars == <<fs, fs0, pc, values, replacements, dir_renames, file_renames,
          text_files, dry, applied, total_replacements, confirm, ret,
          landed, opened, written, log>>

---------------------------------------------------------------------------
(* Bounds of the model.                                                    *)

\* The tree holds one file for every concatenation of at most MaxFrags
\* fragments (Fragments, below).
MaxFrags == 2

\* At most MaxChanged of the six prompts get a non-empty answer.
MaxChanged == 2

---------------------------------------------------------------------------
(* Configuration: SKIP_DIRS, BINARY_EXTENSIONS, PROMPTS.                   *)

SKIP_DIRS ==
    { <<".","g","i","t">>,
      <<"v","e","n","v">>,
      <<"_","_","p","y","c","a","c","h","e","_","_">>,
      <<"t","a","r","g","e","t">>,
      <<"d","b","t","_","p","a","c","k","a","g","e","s">>,
      <<"l","o","g","s">>,
      <<".","s","q","l","f","l","u","f","f","_","c","a","c","h","e">> }

BINARY_EXTENSIONS ==
    { <<".","c","s","v">>, <<".","p","p","t","x">>, <<".","x","l","s","x">>,
      <<".","p","n","g">>, <<".","j","p","g">>, <<".","g","i","f">>,
      <<".","i","c","o">>, <<".","w","o","f","f">>,
      <<".","w","o","f","f","2">>, <<".","p","y","c">> }

D_project == <<"c","i","_","c","d","_","p","r","o","j","e","c","t">>
D_author  == <<"A","n","o","u","a","r"," ","Z","b","a","i","d","a">>
D_org     == <<"C","r","i","t","h","i","n","k">>
D_appdb   == <<"A","P","P","_","D","B">>
D_cidb    == <<"_","D","B","_","U","T","I","L","S">>
D_wh      == <<"A","N","A","L","Y","T","I","C","S","_","W","H">>

\* (key, default) in the order of the source; the label is only printed.
PROMPTS ==
    << [key |-> "project_name",   default |-> D_project],
       [key |-> "author_name",    default |-> D_author],
       [key |-> "organization",   default |-> D_org],
       [key |-> "app_database",   default |-> D_appdb],
       [key |-> "ci_database",    default |-> D_cidb],
       [key |-> "warehouse_name", default |-> D_wh] >>

Keys == { PROMPTS[k].key : k \in 1..Len(PROMPTS) }

---------------------------------------------------------------------------
(* Text.                                                                   *)

BAD == "\\xff"

UpperCase ==
    <<"A","B","C","D","E","F","G","H","I","J","K","L","M",
      "N","O","P","Q","R","S","T","U","V","W","X","Y","Z">>

LowerCase ==
    <<"a","b","c","d","e","f","g","h","i","j","k","l","m",
      "n","o","p","q","r","s","t","u","v","w","x","y","z">>

\* str.lower()
Lower(s) ==
    [k \in 1..Len(s) |->
        IF \E u \in 1..Len(UpperCase) : UpperCase[u] = s[k]
        THEN LowerCase[CHOOSE u \in 1..Len(UpperCase) : UpperCase[u] = s[k]]
        ELSE s[k]]

\* str.strip(): leading and trailing blanks removed.
RECURSIVE Strip(_)
Strip(s) ==
    IF s = <<>> THEN s
    ELSE IF s[1] = " " THEN Strip(Tail(s))
    ELSE IF s[Len(s)] = " " THEN Strip(SubSeq(s, 1, Len(s) - 1))
    ELSE s

\* s has t at position k.
MatchAt(s, t, k) ==
    /\ k + Len(t) - 1 <= Len(s)
    /\ \A j \in 1..Len(t) : s[k + j - 1] = t[j]

\* str.count(old): the non-overlapping occurrences, scanning left to right.
\* old is never empty here (a prompted value is never empty).
RECURSIVE CountFrom(_, _, _)
CountFrom(s, old, k) ==
    IF k + Len(old) - 1 > Len(s) THEN 0
    ELSE IF MatchAt(s, old, k) THEN 1 + CountFrom(s, old, k + Len(old))
    ELSE CountFrom(s, old, k + 1)

StrCount(s, old) == CountFrom(s, old, 1)

\* A replace that stops after the first occurrence.
RECURSIVE ReplaceFirstFrom(_, _, _, _)
ReplaceFirstFrom(s, old, new, k) ==
    IF k > Len(s) THEN <<>>
    ELSE IF MatchAt(s, old, k) THEN new \o SubSeq(s, k + Len(old), Len(s))
    ELSE <<s[k]>> \o ReplaceFirstFrom(s, old, new, k + 1)

StrReplaceFirst(s, old, new) == ReplaceFirstFrom(s, old, new, 1)

\* str.replace(old, new): every non-overlapping occurrence, left to right,
\* in one pass (the text put in is not scanned again).
RECURSIVE ReplaceFrom(_, _, _, _)
ReplaceFrom(s, old, new, k) ==
    IF k > Len(s) THEN <<>>
    ELSE IF MatchAt(s, old, k)
         THEN new \o ReplaceFrom(s, old, new, k + Len(old))
    ELSE <<s[k]>> \o ReplaceFrom(s, old, new, k + 1)

StrReplace(s, old, new) == ReplaceFrom(s, old, new, 1)

\* bytes -> str with encoding="utf-8", errors="ignore": the bytes that are
\* not valid UTF-8 are dropped, and no UnicodeDecodeError is ever raised.
RECURSIVE Decode(_)
Decode(data) ==
    IF data = <<>> THEN <<>>
    ELSE IF data[1] = BAD THEN Decode(Tail(data))
    ELSE <<data[1]>> \o Decode(Tail(data))

\* os.path.splitext(filename)[1]: from the last dot on, unless the name has
\* no dot or only leading dots before it.
SplitExt(name) ==
    LET dots == { k \in 1..Len(name) : name[k] = "." }
        last == CHOOSE k \in dots : \A j \in dots : j <= k
    IN  IF dots = {} THEN <<>>
        ELSE IF \A j \in 1..(last - 1) : name[j] = "." THEN <<>>
        ELSE SubSeq(name, last, Len(name))

---------------------------------------------------------------------------
(* The file tree.                                                          *)

Dir(ino) == [kind |-> "dir", data |-> <<>>, mode |-> "rw", ino |-> ino]

File(ino, data, mode) ==
    [kind |-> "file", data |-> data, mode |-> mode, ino |-> ino]

IsPrefix(p, q) == Len(p) <= Len(q) /\ SubSeq(q, 1, Len(p)) = p

Parent(p) == SubSeq(p, 1, Len(p) - 1)

BaseName(p) == p[Len(p)]

Exists(tree, p)  == p = <<>> \/ p \in DOMAIN tree
IsDir(tree, p)   == p = <<>> \/ (p \in DOMAIN tree /\ tree[p].kind = "dir")
IsFile(tree, p)  == p \in DOMAIN tree /\ tree[p].kind = "file"

Children(tree, d) == { p \in DOMAIN tree : Len(p) = Len(d) + 1 /\ IsPrefix(d, p) }

\* p lies under a directory whose name is in SKIP_DIRS.
UnderSkipDir(p) == \E k \in 1..(Len(p) - 1) : p[k] \in SKIP_DIRS

\* An os.walk that prunes nothing.
CollectAllFiles(tree) ==
    { p \in DOMAIN tree :
        /\ tree[p].kind = "file"
        /\ Lower(SplitExt(BaseName(p))) \notin BINARY_EXTENSIONS }

\* collect_text_files: os.walk from d, the directory names in SKIP_DIRS
\* pruned before the descent, the files with a binary extension left out.
\* os.walk's order is the operating system's; the result is kept as a set.
RECURSIVE Walk(_, _)
Walk(tree, d) ==
    LET here  == { p \in Children(tree, d) :
                     /\ tree[p].kind = "file"
                     /\ Lower(SplitExt(BaseName(p))) \notin BINARY_EXTENSIONS }
        below == { p \in Children(tree, d) :
                     tree[p].kind = "dir" /\ BaseName(p) \notin SKIP_DIRS }
    IN  here \cup UNION { Walk(tree, p) : p \in below }

CollectTextFiles(tree) == Walk(tree, <<>>)

---------------------------------------------------------------------------
(* count_replacements and replace_in_files.                                *)

\* open(filepath, "r") succeeds.
Readable(tree, f) == IsFile(tree, f) /\ tree[f].mode # "none"

\* open(filepath, "w") succeeds (mode "ro": the file can only be read).
Writable(tree, f) == IsFile(tree, f) /\ tree[f].mode = "rw"

\* content.count(old) of one file; a file that cannot be opened raises
\* OSError, which the loop swallows.
FileCount(tree, f, old) ==
    IF Readable(tree, f) THEN StrCount(Decode(tree[f].data), old) ELSE 0

RECURSIVE SumCounts(_, _, _)
SumCounts(tree, files, old) ==
    IF files = {} THEN 0
    ELSE LET f == CHOOSE x \in files : TRUE
         IN  FileCount(tree, f, old) + SumCounts(tree, files \ {f}, old)

count_replacements(tree, files, old, new) ==
    IF old = new THEN [total |-> 0, files |-> 0]
    ELSE [total |-> SumCounts(tree, files, old),
          files |-> Cardinality({ f \in files : FileCount(tree, f, old) > 0 })]

\* The inodes whose content a count or a replace over files reads.
ReadBy(tree, files, old, new) ==
    IF old = new THEN {}
    ELSE { tree[f].ino : f \in { x \in files : Readable(tree, x) } }

\* The files replace_in_files rewrites: read, found to hold old, and opened
\* for writing without an OSError.
Rewritten(tree, files, old, new) ==
    IF old = new THEN {}
    ELSE { f \in files : FileCount(tree, f, old) > 0 /\ Writable(tree, f) }

\* replace_in_files: the return value and the tree it leaves.  What is
\* written is the decoded text with old replaced, encoded again: the bytes
\* that errors="ignore" dropped are not written back.
replace_in_files(tree, files, old, new) ==
    LET hit == Rewritten(tree, files, old, new)
    IN  [total |-> SumCounts(tree, hit, old),
         tree  |-> [p \in DOMAIN tree |->
                      IF p \in hit
                      THEN [tree[p] EXCEPT
                              !.data = StrReplace(Decode(tree[p].data), old, new)]
                      ELSE tree[p]]]

---------------------------------------------------------------------------
(* rename_path: os.path.exists, os.makedirs, shutil.move.                  *)

Prefixes(d) == { SubSeq(d, 1, k) : k \in 1..Len(d) }

\* os.makedirs(d, exist_ok=True): FileExistsError when a file is in the way.
MakeDirs(tree, d) ==
    IF \E q \in Prefixes(d) : IsFile(tree, q)
    THEN [ok |-> FALSE, tree |-> tree]
    ELSE LET missing == { q \in Prefixes(d) : q \notin DOMAIN tree }
         IN  [ok |-> TRUE,
              tree |-> [q \in DOMAIN tree \cup missing |->
                          IF q \in DOMAIN tree THEN tree[q] ELSE Dir(0)]]

\* os.rename(src, real) of a file or of a whole directory onto a path that
\* is free or holds a file: every path under src is re-rooted at real.
Rekey(tree, src, real) ==
    LET moved == { p \in DOMAIN tree : IsPrefix(src, p) }
        kept  == (DOMAIN tree \ moved) \ {real}
        to(p) == real \o SubSeq(p, Len(src) + 1, Len(p))
    IN  [q \in kept \cup { to(p) : p \in moved } |->
            IF \E p \in moved : to(p) = q
            THEN tree[CHOOSE p \in moved : to(p) = q]
            ELSE tree[q]]

\* shutil.move(src, dst), src existing.  An existing directory dst takes src
\* inside it (shutil.Error when that name is taken there); a file moved onto
\* an existing file replaces it; a directory moved onto a file, or into
\* itself, raises.
Move(tree, src, dst) ==
    LET into == IsDir(tree, dst)
        real == IF into THEN dst \o <<BaseName(src)>> ELSE dst
    IN  IF into /\ src = dst THEN [ok |-> TRUE, tree |-> tree]
        ELSE IF into /\ Exists(tree, real) THEN [ok |-> FALSE, tree |-> tree]
        ELSE IF IsDir(tree, src) /\ IsPrefix(src, real)
             THEN [ok |-> FALSE, tree |-> tree]
        ELSE IF IsDir(tree, src) /\ IsFile(tree, real)
             THEN [ok |-> FALSE, tree |-> tree]
        ELSE [ok |-> TRUE, tree |-> Rekey(tree, src, real)]

\* A rename_path without the old_name == new_name guard.
rename_path_unguarded(tree, old_name, new_name) ==
    IF Exists(tree, old_name)
    THEN LET made == MakeDirs(tree, Parent(new_name))
             mv   == Move(made.tree, old_name, new_name)
         IN  IF ~made.ok THEN [ret |-> "raise", tree |-> tree]
             ELSE IF ~mv.ok THEN [ret |-> "raise", tree |-> made.tree]
             ELSE [ret |-> "True", tree |-> mv.tree]
    ELSE [ret |-> "False", tree |-> tree]

\* rename_path(root, old_name, new_name): what it returns ("raise" for an
\* exception of os.makedirs or shutil.move, which it does not catch) and
\* the tree it leaves.  Paths are relative to root.
rename_path(tree, old_name, new_name) ==
    IF old_name = new_name THEN [ret |-> "False", tree |-> tree]
    ELSE IF Exists(tree, old_name)
    THEN LET made == MakeDirs(tree, Parent(new_name))
             mv   == Move(made.tree, old_name, new_name)
         IN  IF ~made.ok THEN [ret |-> "raise", tree |-> tree]
             ELSE IF ~mv.ok THEN [ret |-> "raise", tree |-> made.tree]
             ELSE [ret |-> "True", tree |-> mv.tree]
    ELSE [ret |-> "False", tree |-> tree]

---------------------------------------------------------------------------
(* The trees the script is started in.                                     *)

n_ddls       == <<"d","d","l","s">>
n_account    == <<"_","a","c","c","o","u","n","t">>
n_databases  == <<"d","a","t","a","b","a","s","e","s">>
n_warehouses == <<"w","a","r","e","h","o","u","s","e","s">>
n_scripts    == <<"s","c","r","i","p","t","s">>
n_initpy     == <<"i","n","i","t","_","p","r","o","j","e","c","t",".","p","y">>
n_git        == <<".","g","i","t">>
n_config     == <<"c","o","n","f","i","g">>
n_readme     == <<"R","E","A","D","M","E",".","m","d">>
n_license    == <<"L","I","C","E","N","S","E">>
n_secret     == <<"s","e","c","r","e","t",".","t","x","t">>
n_legacy     == <<"l","e","g","a","c","y",".","s","q","l">>
n_seeds      == <<"s","e","e","d","s">>
n_datacsv    == <<"d","a","t","a",".","C","S","V">>
n_models     == <<"m","o","d","e","l","s">>
n_schema     == <<"s","c","h","e","m","a",".","s","q","l">>
n_logs       == <<"l","o","g","s">>
n_runlog     == <<"r","u","n",".","l","o","g">>
n_target     == <<"t","a","r","g","e","t">>
n_outsql     == <<"o","u","t",".","s","q","l">>
x_sql        == <<".","s","q","l">>
x_txt        == <<".","t","x","t">>

\* The example of the specification: ci_cd_project twice, APP_DB once.
ExampleText ==
    <<"c","i","_","c","d","_","p","r","o","j","e","c","t"," ",
      "c","i","_","c","d","_","p","r","o","j","e","c","t"," ",
      "A","P","P","_","D","B">>

ScriptPath == <<n_scripts, n_initpy>>

\* The pieces the contents of the files under models/ are made of: APP_DB
\* followed by _UTILS reads APP_DB_UTILS, which holds the old token APP_DB
\* and the old token _DB_UTILS on shared characters.
Fragments == << D_appdb, <<"_","U","T","I","L","S">> >>

RECURSIVE FragSeqs(_)
FragSeqs(n) ==
    IF n = 0 THEN { <<>> }
    ELSE LET shorter == FragSeqs(n - 1)
         IN  shorter \cup { Append(s, k) : s \in shorter, k \in 1..Len(Fragments) }

RECURSIVE Concat(_)
Concat(ks) ==
    IF ks = <<>> THEN <<>> ELSE Fragments[Head(ks)] \o Concat(Tail(ks))

\* A number of its own for every sequence of fragments.
RECURSIVE Code(_)
Code(ks) ==
    IF ks = <<>> THEN 0
    ELSE Code(SubSeq(ks, 1, Len(ks) - 1)) * (Len(Fragments) + 1) + ks[Len(ks)]

\* models/<content>.txt for every content of at most MaxFrags fragments.
ModelEntries ==
    { [p |-> <<n_models, Concat(ks) \o x_txt>>,
       n |-> File(100 + Code(ks), Concat(ks), "rw")] : ks \in FragSeqs(MaxFrags) }

\* Present in every tree: the script, a file with the specification's
\* example, a file without extension, an unreadable file, a file with a byte
\* that is not UTF-8, a file with a binary extension, and the files under
\* models/.
CommonEntries ==
    { [p |-> <<n_scripts>>,             n |-> Dir(1)],
      [p |-> ScriptPath,                n |-> File(2, D_author, "rw")],
      [p |-> <<n_readme>>,              n |-> File(3, ExampleText, "rw")],
      [p |-> <<n_license>>,             n |-> File(4, D_org, "rw")],
      [p |-> <<n_secret>>,              n |-> File(5, D_appdb, "none")],
      [p |-> <<n_legacy>>,              n |-> File(6, D_appdb \o <<BAD>>, "rw")],
      [p |-> <<n_seeds>>,               n |-> Dir(7)],
      [p |-> <<n_seeds, n_datacsv>>,    n |-> File(8, D_appdb, "rw")],
      [p |-> <<n_models>>,              n |-> Dir(9)] }
    \cup ModelEntries

\* The template's ddls/ tree, with a logs/ directory in ddls/APP_DB and a
\* target/ directory in ddls/.
DdlsEntries ==
    LET dbs == <<n_ddls, n_account, n_databases>>
        whs == <<n_ddls, n_account, n_warehouses>>
    IN  { [p |-> <<n_ddls>>,                          n |-> Dir(10)],
          [p |-> <<n_ddls, D_appdb>>,                 n |-> Dir(11)],
          [p |-> <<n_ddls, D_appdb, n_schema>>,       n |-> File(12, D_appdb, "rw")],
          [p |-> <<n_ddls, D_appdb, n_logs>>,         n |-> Dir(13)],
          [p |-> <<n_ddls, D_appdb, n_logs, n_runlog>>,
                                                      n |-> File(14, D_appdb, "rw")],
          [p |-> <<n_ddls, D_cidb>>,                  n |-> Dir(15)],
          [p |-> <<n_ddls, D_cidb, n_schema>>,        n |-> File(16, D_cidb, "rw")],
          [p |-> <<n_ddls, n_account>>,               n |-> Dir(17)],
          [p |-> dbs,                                 n |-> Dir(18)],
          [p |-> dbs \o <<D_appdb \o x_sql>>,         n |-> File(19, D_appdb, "rw")],
          [p |-> dbs \o <<D_cidb \o x_sql>>,          n |-> File(20, D_cidb, "rw")],
          [p |-> whs,                                 n |-> Dir(21)],
          [p |-> whs \o <<D_wh \o x_sql>>,            n |-> File(22, D_wh, "rw")],
          [p |-> <<n_ddls, n_target>>,                n |-> Dir(25)],
          [p |-> <<n_ddls, n_target, n_outsql>>,      n |-> File(26, D_appdb, "rw")] }

\* Compiled output that already holds an entry named APP_DB in ddls/target/.
CompiledEntries ==
    { [p |-> <<n_ddls, n_target, D_appdb>>,           n |-> Dir(27)],
      [p |-> <<n_ddls, n_target, D_appdb, n_outsql>>, n |-> File(28, D_appdb, "rw")] }

\* The metadata directory of git.
GitEntries ==
    { [p |-> <<n_git>>,           n |-> Dir(23)],
      [p |-> <<n_git, n_config>>, n |-> File(24, D_org, "rw")] }

TreeOf(entries) ==
    [q \in { e.p : e \in entries } |-> (CHOOSE e \in entries : e.p = q).n]

\* repo: under git, with ddls/ and compiled output; ddls: ddls/ but neither
\* .git nor compiled output; bare: only the common files.
Layouts == { "repo", "ddls", "bare" }

InitialTree(layout) ==
    TreeOf(CommonEntries
           \cup (IF layout \in { "repo", "ddls" } THEN DdlsEntries ELSE {})
           \cup (IF layout = "repo" THEN GitEntries \cup CompiledEntries ELSE {}))

InitialTrees == { InitialTree(l) : l \in Layouts }

---------------------------------------------------------------------------
(* What the user types.                                                    *)

v_acme   == <<"a","c","m","e">>
v_acmedb == <<"A","C","M","E","_","D","B">>
v_appdb2 == <<"A","P","P","_","D","B","2">>
v_yes    == <<"y","e","s">>

\* The answers to each prompt of prompt_values; <<>> is a bare Enter.
InputsFor(key) ==
    CASE key = "project_name"   -> { <<>>, <<" ">> \o v_acme \o <<" ">> }
      [] key = "author_name"    -> { <<>>, <<" ">>, <<"B","o">> }
      [] key = "organization"   -> { <<>>, <<"A","c","m","e">> }
      [] key = "app_database"   -> { <<>>, v_acmedb, v_appdb2, D_cidb, n_target }
      [] key = "ci_database"    -> { <<>>, <<"C","I">>, v_acmedb, D_appdb }
      [] key = "warehouse_name" -> { <<>>, D_wh, <<"W","H">> }

ConfirmInputs == { <<>>, <<"y">>, <<"Y">>, <<" ">>, <<"n">>, v_yes }
PushInputs    == { <<>>, <<"Y">>, <<"n">> }
DeleteInputs  == { <<>>, <<"Y">>, <<"n">> }
UrlInputs     == { <<>>, <<" ">>, <<"g","i","t","@","h",":","r">> }

---------------------------------------------------------------------------
(* main.                                                                   *)

PromptIndex(key) == (CHOOSE k \in 1..Len(PROMPTS) : PROMPTS[k].key = key)

Pair(old, new) == [old |-> old, new |-> new]

\* No filter at all.
KeepAll(pairs) == pairs

\* "Filter out no-ops": the pairs with old != new, in order.
FilterNoOps(pairs) == SelectSeq(pairs, LAMBDA r : r.old # r.new)

\* Abort only on an "n".
DeclinedOnlyOnN(answer) == answer = <<"n">>

\* confirm and confirm != "y": the run is aborted.
Declined(answer) == answer # <<>> /\ answer # <<"y">>

\* The position after the confirmation or after a rename, by what is left
\* of the two rename loops (done is the number of rename_path calls made).
AfterRenames(done) ==
    IF done < Len(dir_renames) THEN "rename_dirs"
    ELSE IF done < Len(dir_renames) + Len(file_renames) THEN "rename_files"
    ELSE "rescan"

AfterReplaces(done) ==
    IF done < Len(replacements) THEN "replace" ELSE "report"

Init ==
    /\ fs0 \in InitialTrees
    /\ fs = fs0
    /\ pc = "prompt"
    /\ values = [k \in Keys |-> <<>>]
    /\ replacements = <<>>
    /\ dir_renames = <<>>
    /\ file_renames = <<>>
    /\ text_files = {}
    /\ dry = <<>>
    /\ applied = <<>>
    /\ total_replacements = 0
    /\ confirm = <<>>
    /\ ret = <<>>
    /\ landed = <<>>
    /\ opened = {}
    /\ written = {}
    /\ log = <<>>

\* prompt_values: input().strip(), and the default for an empty answer.
PromptValues ==
    /\ pc = "prompt"
    /\ \E a1 \in InputsFor("project_name"), a2 \in InputsFor("author_name"),
          a3 \in InputsFor("organization"), a4 \in InputsFor("app_database"),
          a5 \in InputsFor("ci_database"), a6 \in InputsFor("warehouse_name") :
          LET typed == <<a1, a2, a3, a4, a5, a6>>
          IN  /\ Cardinality({ k \in 1..6 : typed[k] # <<>> }) <= MaxChanged
              /\ values' = [key \in Keys |->
                              LET user_input == Strip(typed[PromptIndex(key)])
                              IN  IF user_input # <<>> THEN user_input
                                  ELSE PROMPTS[PromptIndex(key)].default]
    /\ pc' = "plan"
    /\ log' = Append(log, "prompt_values")
    /\ UNCHANGED <<fs, fs0, replacements, dir_renames, file_renames,
                   text_files, dry, applied, total_replacements, confirm,
                   ret, landed, opened, written>>

\* The three plans, filtered, and the early return.
BuildPlan ==
    /\ pc = "plan"
    /\ LET dbs  == <<n_ddls, n_account, n_databases>>
           whs  == <<n_ddls, n_account, n_warehouses>>
           reps == FilterNoOps([k \in 1..Len(PROMPTS) |->
                       Pair(PROMPTS[k].default, values[PROMPTS[k].key])])
           dirs == FilterNoOps(
                     << Pair(<<n_ddls, PROMPTS[4].default>>,
                             <<n_ddls, values["app_database"]>>),
                        Pair(<<n_ddls, PROMPTS[5].default>>,
                             <<n_ddls, values["ci_database"]>>) >>)
           fils == FilterNoOps(
                     << Pair(dbs \o <<PROMPTS[4].default \o x_sql>>,
                             dbs \o <<values["app_database"] \o x_sql>>),
                        Pair(dbs \o <<PROMPTS[5].default \o x_sql>>,
                             dbs \o <<values["ci_database"] \o x_sql>>),
                        Pair(whs \o <<PROMPTS[6].default \o x_sql>>,
                             whs \o <<values["warehouse_name"] \o x_sql>>) >>)
       IN  /\ replacements' = reps
           /\ dir_renames' = dirs
           /\ file_renames' = fils
           /\ IF reps = <<>> /\ dirs = <<>> /\ fils = <<>>
              THEN /\ pc' = "done"
                   /\ log' = Append(log, "nothing_to_change")
              ELSE /\ pc' = "dryrun"
                   /\ log' = log
    /\ UNCHANGED <<fs, fs0, values, text_files, dry, applied,
                   total_replacements, confirm, ret, landed, opened, written>>

\* The first scan and the dry-run summary.  The lines that announce the
\* renames only test os.path.exists and print.
DryRun ==
    /\ pc = "dryrun"
    /\ LET files == CollectTextFiles(fs)
       IN  /\ text_files' = files
           /\ dry' = [k \in 1..Len(replacements) |->
                        count_replacements(fs, files, replacements[k].old,
                                           replacements[k].new)]
           /\ opened' = opened \cup UNION {
                            ReadBy(fs, files, replacements[k].old,
                                   replacements[k].new) :
                            k \in 1..Len(replacements) }
    /\ pc' = "confirm"
    /\ log' = log \o <<"collect_text_files", "dry_run">>
    /\ UNCHANGED <<fs, fs0, values, replacements, dir_renames, file_renames,
                   applied, total_replacements, confirm, ret, landed, written>>

\* "Apply these changes? [Y/n]"
Confirm ==
    /\ pc = "confirm"
    /\ \E typed \in ConfirmInputs :
          /\ confirm' = Lower(Strip(typed))
          /\ IF Declined(confirm')
             THEN /\ pc' = "done"
                  /\ log' = log \o <<"confirm", "aborted">>
             ELSE /\ pc' = AfterRenames(0)
                  /\ log' = Append(log, "confirm")
    /\ UNCHANGED <<fs, fs0, values, replacements, dir_renames, file_renames,
                   text_files, dry, applied, total_replacements, ret, landed,
                   opened, written>>

\* One rename_path call of either loop, and whether the item that was at old
\* is at new when the call has returned True.
RenameCall(r, event) ==
    LET res == rename_path(fs, r.old, r.new)
    IN  /\ fs' = res.tree
        /\ ret' = Append(ret, res.ret)
        /\ landed' = IF res.ret = "True"
                     THEN Append(landed, /\ r.new \in DOMAIN res.tree
                                         /\ res.tree[r.new].ino = fs[r.old].ino)
                     ELSE landed
        /\ log' = Append(log, event)
        /\ pc' = IF res.ret = "raise" THEN "crashed"
                 ELSE AfterRenames(Len(ret) + 1)

\* 1. Rename directories first.
RenameDir ==
    /\ pc = "rename_dirs"
    /\ RenameCall(dir_renames[Len(ret) + 1], "rename_dir")
    /\ UNCHANGED <<fs0, values, replacements, dir_renames, file_renames,
                   text_files, dry, applied, total_replacements, confirm,
                   opened, written>>

\* 2. Rename individual files.
RenameFile ==
    /\ pc = "rename_files"
    /\ RenameCall(file_renames[Len(ret) - Len(dir_renames) + 1], "rename_file")
    /\ UNCHANGED <<fs0, values, replacements, dir_renames, file_renames,
                   text_files, dry, applied, total_replacements, confirm,
                   opened, written>>

\* A step that keeps the list of the first scan.
RescanStale ==
    /\ pc = "rescan"
    /\ pc' = AfterReplaces(0)
    /\ log' = Append(log, "collect_text_files")
    /\ UNCHANGED <<fs, fs0, values, replacements, dir_renames, file_renames,
                   text_files, dry, applied, total_replacements, confirm,
                   ret, landed, opened, written>>

\* 3. Re-collect text files after renames.
Rescan ==
    /\ pc = "rescan"
    /\ text_files' = CollectTextFiles(fs)
    /\ pc' = AfterReplaces(0)
    /\ log' = Append(log, "collect_text_files")
    /\ UNCHANGED <<fs, fs0, values, replacements, dir_renames, file_renames,
                   dry, applied, total_replacements, confirm, ret, landed,
                   opened, written>>

\* 4. Replace file contents: one replace_in_files call of the loop.
Replace ==
    /\ pc = "replace"
    /\ LET r   == replacements[Len(applied) + 1]
           res == replace_in_files(fs, text_files, r.old, r.new)
       IN  /\ fs' = res.tree
           /\ applied' = Append(applied, res.total)
           /\ total_replacements' = total_replacements + res.total
           /\ opened' = opened \cup ReadBy(fs, text_files, r.old, r.new)
           /\ written' = written \cup
                  { fs[f].ino : f \in Rewritten(fs, text_files, r.old, r.new) }
    /\ pc' = AfterReplaces(Len(applied) + 1)
    /\ log' = Append(log, "replace_in_files")
    /\ UNCHANGED <<fs0, values, replacements, dir_renames, file_renames,
                   text_files, dry, confirm, ret, landed>>

\* "Done! N replacements applied." and the test for a .git directory.
Report ==
    /\ pc = "report"
    /\ pc' = IF <<n_git>> \in DOMAIN fs /\ fs[<<n_git>>].kind = "dir"
             THEN "git_url" ELSE "delete_prompt"
    /\ log' = Append(log, "report_total")
    /\ UNCHANGED <<fs, fs0, values, replacements, dir_renames, file_renames,
                   text_files, dry, applied, total_replacements, confirm,
                   ret, landed, opened, written>>

---------------------------------------------------------------------------
(* Git remote and initial commit.  A subprocess.run(..., check=True) either *)
(* succeeds or raises CalledProcessError; which one is the environment's   *)
(* choice.                                                                 *)

GitConfigPath == <<n_git, n_config>>

\* What a successful "git remote set-url" or "git remote add" leaves in
\* .git/config: the remote's line.
WithRemote(tree) ==
    IF IsFile(tree, GitConfigPath)
    THEN [tree EXCEPT ![GitConfigPath].data = @ \o <<"u","r","l">>]
    ELSE tree

GitFrame ==
    UNCHANGED <<fs0, values, replacements, dir_renames, file_renames,
                text_files, dry, applied, total_replacements, confirm, ret,
                landed, opened, written>>

\* "New Git repository URL (leave blank to skip)"
GitUrl ==
    /\ pc = "git_url"
    /\ \E typed \in UrlInputs :
          IF Strip(typed) # <<>>
          THEN pc' = "git_set_url" /\ log' = Append(log, "git_url_prompt")
          ELSE /\ pc' = "delete_prompt"
               /\ log' = log \o <<"git_url_prompt", "git_skipped">>
    /\ fs' = fs
    /\ GitFrame

\* git remote set-url origin, inside try ... except CalledProcessError.
GitSetUrl ==
    /\ pc = "git_set_url"
    /\ \E ok \in BOOLEAN :
          IF ok
          THEN /\ fs' = WithRemote(fs)
               /\ pc' = "git_branch"
               /\ log' = Append(log, "git remote set-url: ok")
          ELSE /\ fs' = fs
               /\ pc' = "git_remote_add"
               /\ log' = Append(log, "git remote set-url: failed")
    /\ GitFrame

\* git remote add origin, run in the except clause with check=True: its own
\* CalledProcessError is caught by nothing.
GitRemoteAdd ==
    /\ pc = "git_remote_add"
    /\ \E ok \in BOOLEAN :
          IF ok
          THEN /\ fs' = WithRemote(fs)
               /\ pc' = "git_branch"
               /\ log' = Append(log, "git remote add: ok")
          ELSE /\ fs' = fs
               /\ pc' = "crashed"
               /\ log' = Append(log, "git remote add: failed")
    /\ GitFrame

\* git branch --show-current (no check=True: it never raises), then
\* "Create initial commit and push?"
GitBranch ==
    /\ pc = "git_branch"
    /\ \E typed \in PushInputs :
          LET push_confirm == Lower(Strip(typed))
          IN  IF push_confirm = <<>> \/ push_confirm = <<"y">>
              THEN /\ pc' = "git_add"
                   /\ log' = log \o <<"git branch", "push_prompt">>
              ELSE /\ pc' = "delete_prompt"
                   /\ log' = log \o <<"git branch", "push_prompt", "push_skipped">>
    /\ fs' = fs
    /\ GitFrame

\* git add -A, check=True, outside any try.
GitAdd ==
    /\ pc = "git_add"
    /\ \E ok \in BOOLEAN :
          IF ok
          THEN pc' = "git_commit" /\ log' = Append(log, "git add: ok")
          ELSE pc' = "crashed" /\ log' = Append(log, "git add: failed")
    /\ fs' = fs
    /\ GitFrame

\* git commit, check=True, outside any try.
GitCommit ==
    /\ pc = "git_commit"
    /\ \E ok \in BOOLEAN :
          IF ok
          THEN pc' = "git_push" /\ log' = Append(log, "git commit: ok")
          ELSE pc' = "crashed" /\ log' = Append(log, "git commit: failed")
    /\ fs' = fs
    /\ GitFrame

\* git push, inside try ... except CalledProcessError.
GitPush ==
    /\ pc = "git_push"
    /\ \E ok \in BOOLEAN :
          log' = Append(log, IF ok THEN "git push: ok" ELSE "git push: failed")
    /\ pc' = "delete_prompt"
    /\ fs' = fs
    /\ GitFrame

\* os.remove(script_path), and os.rmdir(scripts_dir) when that leaves it empty.
WithoutScript(tree) ==
    LET gone  == { ScriptPath } \cup
                 (IF Children(tree, Parent(ScriptPath)) \subseteq { ScriptPath }
                  THEN { Parent(ScriptPath) } ELSE {})
    IN  [q \in DOMAIN tree \ gone |-> tree[q]]

\* "Delete this init script? [y/N]"
DeletePrompt ==
    /\ pc = "delete_prompt"
    /\ \E typed \in DeleteInputs :
          IF Lower(Strip(typed)) = <<"y">>
          THEN /\ fs' = WithoutScript(fs)
               /\ log' = log \o <<"delete_prompt", "script_deleted">>
          ELSE /\ fs' = fs
               /\ log' = Append(log, "delete_prompt")
    /\ pc' = "done"
    /\ GitFrame

Next ==
    \/ PromptValues
    \/ BuildPlan
    \/ DryRun
    \/ Confirm
    \/ RenameDir
    \/ RenameFile
    \/ Rescan
    \/ Replace
    \/ Report
    \/ GitUrl
    \/ GitSetUrl
    \/ GitRemoteAdd
    \/ GitBranch
    \/ GitAdd
    \/ GitCommit
    \/ GitPush
    \/ DeletePrompt

Spec == Init /\ [][Next]_vars

---------------------------------------------------------------------------
(* rename_path on its own: one call with any pair of relative paths, in    *)
(* any of the initial trees.  dir_renames holds the call's arguments.      *)

RenameArgs ==
    { <<n_ddls, D_appdb>>,
      <<n_ddls, v_acmedb>>,
      <<n_ddls, D_appdb, n_schema>>,
      <<n_ddls, D_appdb, v_acme>>,
      <<n_ddls, v_acme, v_acmedb>>,
      <<n_readme>>,
      <<n_license>>,
      <<n_readme, v_acme>>,
      <<v_acme>> }

RenameInit == Init

RenamePathCall ==
    /\ pc = "prompt"
    /\ \E old_name \in RenameArgs, new_name \in RenameArgs :
          LET res == rename_path(fs, old_name, new_name)
          IN  /\ fs' = res.tree
              /\ ret' = <<res.ret>>
              /\ dir_renames' = <<Pair(old_name, new_name)>>
    /\ pc' = "returned"
    /\ log' = Append(log, "rename_path")
    /\ UNCHANGED <<fs0, values, replacements, file_renames, text_files, dry,
                   applied, total_replacements, confirm, landed, opened,
                   written>>

RenameNext == RenamePathCall

RenameSpec == RenameInit /\ [][RenameNext]_vars

---------------------------------------------------------------------------
(* Vocabulary of the properties.                                           *)

Events == { log[k] : k \in 1..Len(log) }

RenameEvents == { "rename_dir", "rename_file" }

GitCommandEvents ==
    { "git remote set-url: ok", "git remote set-url: failed",
      "git remote add: ok", "git remote add: failed", "git branch",
      "git add: ok", "git add: failed", "git commit: ok",
      "git commit: failed", "git push: ok", "git push: failed" }

GitFailureEvents ==
    { "git remote set-url: failed", "git remote add: failed",
      "git add: failed", "git commit: failed", "git push: failed" }

AllDefault == \A k \in 1..Len(PROMPTS) : values[PROMPTS[k].key] = PROMPTS[k].default

\* The files of the initial tree that lie under a skipped directory.
SkippedFiles == { p \in DOMAIN fs0 : fs0[p].kind = "file" /\ UnderSkipDir(p) }

\* Where the node that was at p in the initial tree is now.
NowAt(p) == { q \in DOMAIN fs : fs[q].ino = fs0[p].ino }

\* The dry run, the renames, the re-scan and the content replacement: the
\* run up to the report of the total.
InScanAndApply == \A k \in 1..Len(log) : log[k] # "report_total"

\* Some alignment of new against old makes them share at least one position
\* and agree wherever they share one: new holds old, old holds new, or an
\* end of one is the other end of the other.  Only then can putting new into
\* a text complete or bring in an occurrence of old.
Overlaps(new, old) ==
    \E d \in (2 - Len(new))..Len(old) :
        \A j \in 1..Len(new) :
            (d + j - 1) \in 1..Len(old) => new[j] = old[d + j - 1]

RECURSIVE SumTotals(_)
SumTotals(counts) ==
    IF counts = <<>> THEN 0 ELSE Head(counts).total + SumTotals(Tail(counts))

---------------------------------------------------------------------------
(* The claims.                                                             *)

\* C1: when the replacement loop has ended, the count that the dry run
\* reported for each pair equals the count replace_in_files returned for
\* that pair, and the sum of the dry-run counts equals the reported total.
C1_DryRunCountsEqualApplied ==
    pc = "report" =>
        /\ \A k \in 1..Len(replacements) : dry[k].total = applied[k]
        /\ SumTotals(dry) = total_replacements

\* C2: up to the answer to "Apply these changes?" the tree is the initial
\* one and nothing was renamed or rewritten; and after an answer other than
\* a bare Enter or y/Y the run has ended with the initial tree, no rename,
\* no rewrite and no git command.
C2_NoMutationWithoutConfirmation ==
    /\ pc \in { "prompt", "plan", "dryrun", "confirm" } =>
          fs = fs0 /\ written = {} /\ ret = <<>>
    /\ ("confirm" \in Events /\ confirm \notin { <<>>, <<"y">> }) =>
          /\ pc = "done"
          /\ fs = fs0 /\ written = {} /\ ret = <<>>
          /\ Events \cap GitCommandEvents = {}
          /\ log[Len(log)] = "aborted"

\* A run that was answered "yes", which is not "y", and was aborted.
C2_Witness ==
    /\ pc = "done"
    /\ confirm = v_yes
    /\ "dry_run" \in Events
    /\ "aborted" \in Events

\* C3: a failed git command never aborts main, and a run that ends after a
\* failed git command has gone through the "Delete this init script?" prompt.
C3_GitFailureNeverAborts ==
    (Events \cap GitFailureEvents # {}) =>
        /\ pc # "crashed"
        /\ pc = "done" => "delete_prompt" \in Events

\* C4 as stated: no scan returns a path under a skipped directory, and
\* through the dry run, the renames, the re-scan and the replacement every
\* file under a skipped directory stays where it was, as it was, unread and
\* unwritten.
C4_SkippedFilesNeverTouched ==
    InScanAndApply =>
        /\ \A f \in text_files : ~UnderSkipDir(f)
        /\ \A p \in SkippedFiles :
              /\ p \in DOMAIN fs
              /\ fs[p] = fs0[p]
              /\ fs0[p].ino \notin opened \cup written

\* C4 as amended: no scan returns a path under a skipped directory, and
\* through the dry run, the renames, the re-scan and the replacement every
\* file under a skipped directory is at exactly one path, with its bytes and
\* mode as they were, under a skipped directory, unread and unwritten; its
\* path has changed only if it lay inside a path that a rename pair names,
\* and then its path below that renamed path is the same.
C4_SkippedFilesOnlyMovedWithRenamedDir ==
    InScanAndApply =>
        /\ \A f \in text_files : ~UnderSkipDir(f)
        /\ \A p \in SkippedFiles :
              /\ Cardinality(NowAt(p)) = 1
              /\ fs0[p].ino \notin opened \cup written
              /\ \A q \in NowAt(p) :
                    /\ fs[q] = fs0[p]
                    /\ UnderSkipDir(q)
                    /\ q # p =>
                          \E r \in { dir_renames[k] : k \in 1..Len(dir_renames) }
                                   \cup
                                   { file_renames[k] : k \in 1..Len(file_renames) } :
                              /\ IsPrefix(r.old, p)
                              /\ Len(q) >= Len(p) - Len(r.old)
                              /\ SubSeq(q, Len(q) - (Len(p) - Len(r.old)) + 1, Len(q))
                                    = SubSeq(p, Len(r.old) + 1, Len(p))

\* ddls/APP_DB was renamed to ddls/ACME_DB, its logs/run.log went with it,
\* and the replacement loop has rewritten files.
C4_Witness ==
    /\ pc = "report"
    /\ <<n_ddls, v_acmedb, n_logs, n_runlog>> \in DOMAIN fs
    /\ <<n_ddls, D_appdb, n_logs, n_runlog>> \notin DOMAIN fs
    /\ <<n_git, n_config>> \in DOMAIN fs
    /\ written # {}

\* The files of a tree that cannot be read or hold a byte that is not UTF-8.
Undecodable(tree) ==
    { p \in DOMAIN tree :
        /\ tree[p].kind = "file"
        /\ \/ tree[p].mode = "none"
           \/ \E k \in 1..Len(tree[p].data) : tree[p].data[k] = BAD }

\* C5: a file that cannot be read or is not valid UTF-8 adds nothing to the
\* dry run's counts, and its bytes are never changed.
C5_UndecodableFilesSkipped ==
    /\ pc = "confirm" =>
          \A k \in 1..Len(replacements) :
              dry[k] = count_replacements(fs, text_files \ Undecodable(fs),
                                          replacements[k].old,
                                          replacements[k].new)
    /\ \A p \in Undecodable(fs0) :
          /\ fs0[p].ino \notin written
          /\ \A q \in NowAt(p) : fs[q].data = fs0[p].data

\* C6 as stated: when the replacement loop has ended, no scanned file that
\* can be read and written holds an occurrence of the old token of any
\* applied pair, whatever the new values are.
C6_NoOldTokenRemains ==
    pc = "report" =>
        \A k \in 1..Len(replacements) :
            \A f \in text_files :
                (Readable(fs, f) /\ Writable(fs, f)) =>
                    StrCount(Decode(fs[f].data), replacements[k].old) = 0

\* C6 as amended: the same for every applied pair whose old token is
\* overlapped by no new value of that pair or of a pair applied after it.
C6_NoOldTokenRemainsUnlessReintroduced ==
    pc = "report" =>
        \A k \in 1..Len(replacements) :
            (\A j \in k..Len(replacements) :
                ~Overlaps(replacements[j].new, replacements[k].old)) =>
            \A f \in text_files :
                (Readable(fs, f) /\ Writable(fs, f)) =>
                    StrCount(Decode(fs[f].data), replacements[k].old) = 0

\* The example of the specification: project_name -> acme and
\* app_database -> ACME_DB applied to "ci_cd_project ci_cd_project APP_DB".
C6_Witness ==
    /\ pc = "report"
    /\ values["project_name"] = v_acme
    /\ values["app_database"] = v_acmedb
    /\ fs[<<n_readme>>].data = v_acme \o <<" ">> \o v_acme \o <<" ">> \o v_acmedb

\* C7: a rename_path call whose two names are equal, or whose old path does
\* not exist, returns False and leaves the tree as it was.
C7_RenameNoOp ==
    pc = "returned" =>
        LET call == dir_renames[1]
        IN  (call.old = call.new \/ call.old \notin DOMAIN fs0) =>
                ret = <<"False">> /\ fs = fs0

\* A call with equal names on a path that exists.
C7_Witness ==
    /\ pc = "returned"
    /\ dir_renames[1].old = dir_renames[1].new
    /\ dir_renames[1].old \in DOMAIN fs0
    /\ ret = <<"False">>

\* C8: once the plans are built, all values being the defaults means that
\* main has returned having only prompted for the values (no scan, no dry
\* run, no confirmation, no rename, no rewrite, no git command, no delete
\* prompt, the tree as it was); and a value that differs means that main did
\* not return there but went on to the scan and the dry run.
C8_DefaultsReturnEarly ==
    pc \notin { "prompt", "plan" } =>
        /\ AllDefault =>
              /\ pc = "done"
              /\ log = <<"prompt_values", "nothing_to_change">>
              /\ fs = fs0 /\ text_files = {} /\ opened = {}
              /\ written = {} /\ ret = <<>> /\ dry = <<>>
        /\ ~AllDefault =>
              /\ "nothing_to_change" \notin Events
              /\ pc # "dryrun" =>
                    /\ Len(log) >= 3
                    /\ log[2] = "collect_text_files"
                    /\ log[3] = "dry_run"

\* The early return.
C8_Witness ==
    /\ pc = "done"
    /\ AllDefault
    /\ log = <<"prompt_values", "nothing_to_change">>

C10_RenamesLoseNothing ==
    pc = "rescan" =>
        /\ \A p \in { x \in DOMAIN fs0 : fs0[x].kind = "file" } :
              /\ Cardinality(NowAt(p)) = 1
              /\ \A q \in NowAt(p) : fs[q].data = fs0[p].data
        /\ \A k \in 1..Len(landed) : landed[k]

===========================================================================
